---- MODULE Spec2Model ----
(***************************************************************************)
(* Verification model of Shipwreck::Phash::CrossCorrelation                *)
(* (src/lib/phash/CrossCorrelation.cpp).                                   *)
(*                                                                         *)
(* Real-valued quantities (the C++ floats) are modelled in exact           *)
(* arithmetic as normalised fractions <<p, q>>; q = 0 stands for the IEEE  *)
(* results of a division by zero (<<0,0>> is NaN, <<1,0>> is +Inf,         *)
(* <<-1,0>> is -Inf).  Single-precision rounding is not modelled: the      *)
(* conversion of sumX to float is exact only below 2^24, that is for       *)
(* lengths up to 65793, far above the lengths explored here.  The int      *)
(* sums and lengths stay far below 2^31.                                   *)
(*                                                                         *)
(* 64-bit words are modelled as bit patterns, 8 little-endian 8-bit limbs, *)
(* with all arithmetic modulo 2^64; the casts between int64_t and uint64_t *)
(* keep the bit pattern, so the signed and unsigned overloads of           *)
(* GetHammingDistance are the same operator on words.                      *)
(*                                                                         *)
(* The private overload GetCrossCorrelationCore(const uint8_t*,            *)
(* const uint8_t*, int) has no caller and is not modelled.                 *)
(***************************************************************************)
EXTENDS Integers, Sequences, FiniteSets, TLC

VARIABLES pc, coefficients1, coefficients2, length, sumX, sumY, meanX, meanY,
          fx, fy, kernel, max, result, divisors, readX, readY,
          argOffset, popcnt, hx, hy, distance

ccVars == <<coefficients1, coefficients2, length, sumX, sumY, meanX, meanY,
            fx, fy, kernel, max, result, divisors, readX, readY, argOffset>>
hdVars == <<popcnt, hx, hy, distance>>
vars == <<pc, ccVars, hdVars>>

(* ---------------- bounds of the model ---------------- *)
\* longest byte vector, largest byte, most bytes passed to one call
MaxLen == 3
MaxByte == 2
MaxTotal == 6
\* longest float vector and largest magnitude handed to the offset kernel
MaxKernelLen == 2
MaxAbs == 1
\* pseudo-random hash words
NumSamples == 3

Bytes == 0..MaxByte
ByteSeqs == UNION {[1..n -> Bytes] : n \in 0..MaxLen}

(* ---------------- exact arithmetic for float ---------------- *)
Abs(n) == IF n < 0 THEN -n ELSE n

Sgn(n) == IF n < 0 THEN -1 ELSE IF n = 0 THEN 0 ELSE 1

RECURSIVE GCD(_, _)
GCD(m, n) == IF n = 0 THEN m ELSE GCD(n, m % n)

Norm(p, q) ==
    IF q = 0 THEN <<Sgn(p), 0>>
    ELSE LET g == GCD(Abs(p), Abs(q))
             s == Sgn(q)
         IN  <<(s * p) \div g, (s * q) \div g>>

Float(n) == <<n, 1>>
Zero == Float(0)
One == Float(1)
NaN == <<0, 0>>

IsFinite(a) == a[2] # 0

FAdd(a, b) == IF IsFinite(a) /\ IsFinite(b)
              THEN Norm(a[1] * b[2] + b[1] * a[2], a[2] * b[2]) ELSE NaN
FSub(a, b) == IF IsFinite(a) /\ IsFinite(b)
              THEN Norm(a[1] * b[2] - b[1] * a[2], a[2] * b[2]) ELSE NaN
FMul(a, b) == IF IsFinite(a) /\ IsFinite(b)
              THEN Norm(a[1] * b[1], a[2] * b[2]) ELSE NaN
FDiv(a, b) == IF IsFinite(a) /\ IsFinite(b)
              THEN Norm(a[1] * b[2], a[2] * b[1]) ELSE NaN
FLess(a, b) == IsFinite(a) /\ IsFinite(b) /\ a[1] * b[2] < b[1] * a[2]
FLeq(a, b) == IsFinite(a) /\ IsFinite(b) /\ a[1] * b[2] <= b[1] * a[2]
FMax(a, b) == IF FLess(a, b) THEN b ELSE a

\* std::sqrt of a non-negative value: the unique non-negative real whose
\* square is m, represented by its square.
Sqrt(m) == [squared |-> m]

(* ---------------- GetCrossCorrelationForOffset ---------------- *)
\* first pass stops one element early
thShort(j, n, offset) == IF j = 0 THEN n - offset - 1 ELSE n

th(j, n, offset) == IF j = 0 THEN n - offset ELSE n
i0(j, n, offset) == IF j = 0 THEN 0 ELSE n - offset
yo(j, n, offset) == offset - j * n

RECURSIVE OffsetLoop(_, _, _, _, _, _)
OffsetLoop(x, y, i, t, o, acc) ==
    IF i < t
    THEN LET dx == x[i + 1]
             dy == y[i + o + 1]
         IN  OffsetLoop(x, y, i + 1, t, o,
                 [num  |-> FAdd(acc.num, FMul(dx, dy)),
                  denx |-> FAdd(acc.denx, FMul(dx, dx)),
                  deny |-> FAdd(acc.deny, FMul(dy, dy)),
                  xi   |-> Append(acc.xi, i),
                  yi   |-> Append(acc.yi, i + o)])
    ELSE acc

\* numerator not squared
OffsetValueUnsquared(num, denx, deny) ==
    IF FLess(num, Zero) \/ denx = Zero \/ deny = Zero
    THEN Zero
    ELSE FDiv(num, FMul(denx, deny))

\* denx used for both factors of the denominator
OffsetValueDenxTwice(num, denx, deny) ==
    IF FLess(num, Zero) \/ denx = Zero \/ deny = Zero
    THEN Zero
    ELSE FDiv(FMul(num, num), FMul(denx, denx))

OffsetValue(num, denx, deny) ==
    IF FLess(num, Zero) \/ denx = Zero \/ deny = Zero
    THEN Zero
    ELSE FDiv(FMul(num, num), FMul(denx, deny))

OffsetDivisors(num, denx, deny) ==
    IF FLess(num, Zero) \/ denx = Zero \/ deny = Zero
    THEN <<>>
    ELSE <<FMul(denx, deny)>>

\* the return statement, with the accumulators and the indices visited
OffsetReturn(offset, acc) ==
    [offset |-> offset,
     num |-> acc.num, denx |-> acc.denx, deny |-> acc.deny,
     xi |-> acc.xi, yi |-> acc.yi,
     div |-> OffsetDivisors(acc.num, acc.denx, acc.deny),
     v |-> OffsetValue(acc.num, acc.denx, acc.deny)]

\* pass j of for (int j = 0; j < 2; j++)
OffsetPass(x, y, j, n, offset, acc) ==
    OffsetLoop(x, y, i0(j, n, offset), th(j, n, offset), yo(j, n, offset), acc)

GetCrossCorrelationForOffset(x, y, offset) ==
    OffsetReturn(offset,
        OffsetPass(x, y, 1, Len(x), offset,
            OffsetPass(x, y, 0, Len(x), offset,
                [num |-> Zero, denx |-> Zero, deny |-> Zero,
                 xi |-> <<>>, yi |-> <<>>])))

(* ---------------- GetCrossCorrelationCore (float vectors) ---------------- *)
\* max = std::max(max, v), with the kernel call recorded
SweepStep(acc, k) ==
    [max |-> FMax(acc.max, k.v), kernel |-> Append(acc.kernel, k)]

RECURSIVE SweepLoop(_, _, _, _)
SweepLoop(x, y, d, acc) ==
    IF d < Len(x)
    THEN SweepLoop(x, y, d + 1,
             SweepStep(acc, GetCrossCorrelationForOffset(x, y, d)))
    ELSE acc

SweepReturn(s) == [max |-> s.max, kernel |-> s.kernel, result |-> Sqrt(s.max)]

\* maximum initialised below zero
GetCrossCorrelationCoreFloatNegInit(x, y) ==
    SweepReturn(SweepLoop(x, y, 0, [max |-> Float(-1), kernel |-> <<>>]))

GetCrossCorrelationCoreFloat(x, y) ==
    SweepReturn(SweepLoop(x, y, 0, [max |-> Zero, kernel |-> <<>>]))

(* ---------------- GetCrossCorrelationCore (byte vectors) ---------------- *)
\* loop bound length - 1
RECURSIVE SumLoopShort(_, _, _, _)
SumLoopShort(x, i, len, acc) ==
    IF i < len - 1
    THEN SumLoopShort(x, i + 1, len,
             [sum |-> acc.sum + x[i + 1], read |-> acc.read \cup {i}])
    ELSE acc

\* loop bound x.size() instead of length
RECURSIVE SumLoopAll(_, _, _, _)
SumLoopAll(x, i, len, acc) ==
    IF i < Len(x)
    THEN SumLoopAll(x, i + 1, len,
             [sum |-> acc.sum + x[i + 1], read |-> acc.read \cup {i}])
    ELSE acc

\* for (i = 0; i < length; i++) sum += x[i];  with the indices it reads
RECURSIVE SumLoop(_, _, _, _)
SumLoop(x, i, len, acc) ==
    IF i < len
    THEN SumLoop(x, i + 1, len,
             [sum |-> acc.sum + x[i + 1], read |-> acc.read \cup {i}])
    ELSE acc

\* sum / static_cast<float>(length); no check of length precedes it
Mean(sum, len) == FDiv(Float(sum), Float(len))

\* the divisor of that division
MeanDivisor(sum, len) == Float(len)

\* the mean is not subtracted
RECURSIVE SubtractLoopNoMean(_, _, _, _, _)
SubtractLoopNoMean(x, mean, i, len, acc) ==
    IF i < len
    THEN SubtractLoopNoMean(x, mean, i + 1, len,
             [f |-> Append(acc.f, Float(x[i + 1])),
              read |-> acc.read \cup {i}])
    ELSE acc

\* for (i = 0; i < length; i++) f[i] = x[i] - mean;  with the indices it reads
RECURSIVE SubtractLoop(_, _, _, _, _)
SubtractLoop(x, mean, i, len, acc) ==
    IF i < len
    THEN SubtractLoop(x, mean, i + 1, len,
             [f |-> Append(acc.f, FSub(Float(x[i + 1]), mean)),
              read |-> acc.read \cup {i}])
    ELSE acc

RECURSIVE KernelDivisors(_, _)
KernelDivisors(ks, i) ==
    IF i > Len(ks) THEN <<>> ELSE ks[i].div \o KernelDivisors(ks, i + 1)

\* return GetCrossCorrelationCore(fx, fy), with the locals of the call
CoreReturn(len, sx, sy, mx, my, vx, vy, c) ==
    [length |-> len, sumX |-> sx.sum, sumY |-> sy.sum,
     meanX |-> mx, meanY |-> my,
     fx |-> vx.f, fy |-> vy.f, kernel |-> c.kernel, max |-> c.max,
     result |-> c.result,
     divisors |-> <<MeanDivisor(sx.sum, len), MeanDivisor(sy.sum, len)>>
                  \o KernelDivisors(c.kernel, 1),
     readX |-> sx.read \cup vx.read, readY |-> sy.read \cup vy.read]

\* the call on the mean-subtracted vectors
CoreSweep(len, sx, sy, mx, my, vx, vy) ==
    CoreReturn(len, sx, sy, mx, my, vx, vy,
               GetCrossCorrelationCoreFloat(vx.f, vy.f))

\* fx, fy from the means
CoreSubtract(x, y, len, sx, sy, mx, my) ==
    CoreSweep(len, sx, sy, mx, my,
              SubtractLoop(x, mx, 0, len, [f |-> <<>>, read |-> {}]),
              SubtractLoop(y, my, 0, len, [f |-> <<>>, read |-> {}]))

\* meanX, meanY from the sums
CoreMeans(x, y, len, sx, sy) ==
    CoreSubtract(x, y, len, sx, sy, Mean(sx.sum, len), Mean(sy.sum, len))

GetCrossCorrelationCore(x, y, len) ==
    CoreMeans(x, y, len,
              SumLoop(x, 0, len, [sum |-> 0, read |-> {}]),
              SumLoop(y, 0, len, [sum |-> 0, read |-> {}]))

Min(m, n) == IF n < m THEN n ELSE m

GetCrossCorrelation(c1, c2) ==
    GetCrossCorrelationCore(c1, c2, Min(Len(c1), Len(c2)))

(* ---------------- 64-bit words: 8 little-endian limbs of 8 bits ---------------- *)
WordBits == 64
LimbBits == 8
Limbs == WordBits \div LimbBits
LimbBase == 2 ^ LimbBits

\* the word whose limb k (1 is the least significant) is f[k]
Word(f) == <<f[1], f[2], f[3], f[4], f[5], f[6], f[7], f[8]>>

RECURSIVE BitAnd(_, _, _)
BitAnd(p, q, w) ==
    IF w = 0 THEN 0
    ELSE (p % 2) * (q % 2) + 2 * BitAnd(p \div 2, q \div 2, w - 1)

RECURSIVE BitXor(_, _, _)
BitXor(p, q, w) ==
    IF w = 0 THEN 0
    ELSE ((p + q) % 2) + 2 * BitXor(p \div 2, q \div 2, w - 1)

RECURSIVE BitCount(_, _)
BitCount(p, w) == IF w = 0 THEN 0 ELSE (p % 2) + BitCount(p \div 2, w - 1)

Limb(a, k) == IF k \in 1..Limbs THEN a[k] ELSE 0

WAnd(a, b) ==
    Word([k \in 1..Limbs |->
            BitAnd(a[k], b[k], LimbBits)])
WXor(a, b) ==
    Word([k \in 1..Limbs |->
            BitXor(a[k], b[k], LimbBits)])

\* a >> s  (logical shift of an unsigned 64-bit word)
WShr(a, s) ==
    LET q == s \div LimbBits
        r == s % LimbBits
    IN  Word([k \in 1..Limbs |->
            (Limb(a, k + q) \div (2 ^ r))
            + (Limb(a, k + q + 1) % (2 ^ r)) * (2 ^ (LimbBits - r))])

\* carry into limb k of a + b
RECURSIVE Carry(_, _, _)
Carry(a, b, k) ==
    IF k = 1 THEN 0
    ELSE (a[k - 1] + b[k - 1] + Carry(a, b, k - 1)) \div LimbBase

\* (a + b) mod 2^64
WAdd(a, b) ==
    Word([k \in 1..Limbs |->
            (a[k] + b[k] + Carry(a, b, k)) % LimbBase])

\* borrow out of limb k - 1 of a - b
RECURSIVE Borrow(_, _, _)
Borrow(a, b, k) ==
    IF k = 1 THEN 0
    ELSE IF a[k - 1] - b[k - 1] - Borrow(a, b, k - 1) < 0 THEN 1 ELSE 0

\* (a - b) mod 2^64
WSub(a, b) ==
    Word([k \in 1..Limbs |->
            (a[k] - b[k] - Borrow(a, b, k) + LimbBase) % LimbBase])

\* column k of the schoolbook product, carry included
RECURSIVE Column(_, _, _)
RECURSIVE ColumnSum(_, _, _, _)
ColumnSum(a, b, k, i) ==
    IF i > k THEN 0 ELSE a[i] * b[k + 1 - i] + ColumnSum(a, b, k, i + 1)
Column(a, b, k) ==
    IF k = 0 THEN 0
    ELSE ColumnSum(a, b, k, 1) + Column(a, b, k - 1) \div LimbBase

\* (a * b) mod 2^64
WMul(a, b) ==
    Word([k \in 1..Limbs |->
            Column(a, b, k) % LimbBase])

\* static_cast<int> of a word: its low 32 bits as a two's complement int
WToInt(a) ==
    a[1] + a[2] * (2 ^ 8) + a[3] * (2 ^ 16) + (a[4] % 128) * (2 ^ 24)
    + (a[4] \div 128) * (-(2 ^ 30)) * 2

Repeat(b) ==
    Word([k \in 1..Limbs |->
            b])

(* ---------------- GetHammingDistance ---------------- *)
M1 == Repeat(85)
M2 == Repeat(51)
M4 == Repeat(15)
H01 == Repeat(1)

\* __builtin_popcountll(v): the number of set bits of v
RECURSIVE PopCountLL(_, _)
PopCountLL(v, k) ==
    IF k > Limbs THEN 0 ELSE BitCount(v[k], LimbBits) + PopCountLL(v, k + 1)

SwarStep1(v) == WSub(v, WAnd(WShr(v, 1), M1))
\* second reduction shifts by 1 instead of 2
SwarStep2Shift1(v) == WAdd(WAnd(v, M2), WAnd(WShr(v, 1), M2))
SwarStep2(v) == WAdd(WAnd(v, M2), WAnd(WShr(v, 2), M2))
SwarStep3(v) == WToInt(WShr(WMul(WAnd(WAdd(v, WShr(v, 4)), M4), H01), 56))

SoftwarePopCount(v) == SwarStep3(SwarStep2(SwarStep1(v)))

\* hw: the build defines __x86_64__ and __POPCNT__
GetHammingDistanceCore(v, hw) ==
    IF hw THEN PopCountLL(v, 1) ELSE SoftwarePopCount(v)

GetHammingDistanceV(v, hw) == GetHammingDistanceCore(v, hw)

GetHammingDistance(x, y, hw) == GetHammingDistanceV(WXor(x, y), hw)

(* ---------------- inputs ---------------- *)
FloatVals == {Float(p) : p \in (-MaxAbs)..MaxAbs}
FloatVecs(n) == [1..n -> FloatVals]

BitWord(i, j) ==

    Word([k \in 1..Limbs |->
            (IF k = (i \div LimbBits) + 1 THEN 2 ^ (i % LimbBits) ELSE 0)
            + (IF j # i /\ k = (j \div LimbBits) + 1 THEN 2 ^ (j % LimbBits) ELSE 0)])

\* all words with at most two set bits
SparseWords ==
    {Repeat(0)} \cup {BitWord(i, j) : i \in 0..(WordBits - 1), j \in 0..(WordBits - 1)}

\* pseudo-random 64-bit samples
Sample(s) ==
    Word([k \in 1..Limbs |->
            (s * 97 + k * 61 + s * k * 29 + 13) % LimbBase])

\* hash1 and hash2 of the test driver
Hash1 ==
    Word([k \in 1..Limbs |->
            IF k <= 2 THEN 170 ELSE 0])
Hash2 ==
    Word([k \in 1..Limbs |->
            IF k = 1 THEN 171 ELSE IF k = 2 THEN 170 ELSE 0])

PatternWords ==
    {Repeat(0), Repeat(255), Repeat(170), Hash1, Hash2}
    \cup {Sample(s) : s \in 1..NumSamples}

(* ---------------- the state machine ---------------- *)
NoCall ==
    /\ length = 0 /\ sumX = 0 /\ sumY = 0 /\ meanX = Zero /\ meanY = Zero
    /\ kernel = <<>> /\ max = Zero /\ result = Sqrt(Zero)
    /\ divisors = <<>> /\ readX = {} /\ readY = {}

NoHamming ==
    /\ popcnt = FALSE /\ hx = Repeat(0) /\ hy = Repeat(0) /\ distance = 0

\* a caller holding two byte vectors
Init ==
    /\ pc = "idle"
    /\ coefficients1 \in ByteSeqs
    /\ coefficients2 \in ByteSeqs
    /\ Len(coefficients1) + Len(coefficients2) <= MaxTotal
    /\ fx = <<>> /\ fy = <<>> /\ argOffset = 0
    /\ NoCall
    /\ NoHamming

\* the call c has returned
Returned(c) ==
    /\ length' = c.length
    /\ sumX' = c.sumX
    /\ sumY' = c.sumY
    /\ meanX' = c.meanX
    /\ meanY' = c.meanY
    /\ fx' = c.fx
    /\ fy' = c.fy
    /\ kernel' = c.kernel
    /\ max' = c.max
    /\ result' = c.result
    /\ divisors' = c.divisors
    /\ readX' = c.readX
    /\ readY' = c.readY

CallGetCrossCorrelation ==
    /\ pc = "idle"
    /\ Returned(GetCrossCorrelation(coefficients1, coefficients2))
    /\ pc' = "done"
    /\ UNCHANGED <<coefficients1, coefficients2, argOffset, hdVars>>

Next == CallGetCrossCorrelation

Spec == Init /\ [][Next]_vars

\* the argOffset kernel on float vectors of equal length
KernelInit ==
    /\ pc = "kidle"
    /\ \E n \in 1..MaxKernelLen :
          /\ fx \in FloatVecs(n)
          /\ fy \in FloatVecs(n)
          /\ argOffset \in 0..(n - 1)
    /\ coefficients1 = <<>> /\ coefficients2 = <<>>
    /\ NoCall
    /\ NoHamming

CallGetCrossCorrelationForOffset ==
    /\ pc = "kidle"
    /\ kernel' = <<GetCrossCorrelationForOffset(fx, fy, argOffset)>>
    /\ pc' = "kdone"
    /\ UNCHANGED <<coefficients1, coefficients2, length, sumX, sumY, meanX,
                   meanY, fx, fy, max, result, divisors, readX, readY,
                   argOffset, hdVars>>

KernelNext == CallGetCrossCorrelationForOffset

KernelSpec == KernelInit /\ [][KernelNext]_vars

\* a caller holding two hash words, on either build
HammingInit ==
    /\ pc = "hidle"
    /\ popcnt \in BOOLEAN
    /\ hx \in PatternWords
    /\ hy \in SparseWords
    /\ distance = 0
    /\ coefficients1 = <<>> /\ coefficients2 = <<>>
    /\ fx = <<>> /\ fy = <<>> /\ argOffset = 0
    /\ NoCall

CallGetHammingDistance ==
    /\ pc = "hidle"
    /\ distance' = GetHammingDistance(hx, hy, popcnt)
    /\ pc' = "hdoneXY"
    /\ UNCHANGED <<popcnt, hx, hy, ccVars>>

CallGetHammingDistanceV ==
    /\ pc = "hidle"
    /\ distance' = GetHammingDistanceV(hx, popcnt)
    /\ pc' = "hdoneV"
    /\ UNCHANGED <<popcnt, hx, hy, ccVars>>

HammingNext == CallGetHammingDistance \/ CallGetHammingDistanceV

HammingSpec == HammingInit /\ [][HammingNext]_vars

(* ---------------- properties ---------------- *)
Prefix(s, n) == SubSeq(s, 1, n)
IsConstantPrefix(s, n) == \A i \in 1..n : \A j \in 1..n : s[i] = s[j]
InUnit(m) == FLeq(Zero, m) /\ FLeq(m, One)
Shifted(s, c) == [i \in 1..Len(s) |-> s[i] + c]
CanShift(s, c) == \A i \in 1..Len(s) : s[i] + c \in Bytes
Bit(w, k) == (w[(k \div LimbBits) + 1] \div (2 ^ (k % LimbBits))) % 2
DiffBits(x, y) == Cardinality({k \in 0..(WordBits - 1) : Bit(x, k) # Bit(y, k)})

RECURSIVE RefNum(_, _, _, _)
RefNum(x, y, d, i) ==
    IF i >= Len(x) THEN Zero
    ELSE FAdd(FMul(x[i + 1], y[((i + d) % Len(x)) + 1]), RefNum(x, y, d, i + 1))

RECURSIVE RefDenX(_, _)
RefDenX(x, i) ==
    IF i >= Len(x) THEN Zero
    ELSE FAdd(FMul(x[i + 1], x[i + 1]), RefDenX(x, i + 1))

RECURSIVE RefDenY(_, _, _)
RefDenY(y, d, i) ==
    IF i >= Len(y) THEN Zero
    ELSE LET e == y[((i + d) % Len(y)) + 1]
         IN  FAdd(FMul(e, e), RefDenY(y, d, i + 1))

\* C1: every offset satisfies 0 <= num*num <= denx*deny and returns a value
\* in [0, 1]; the tracked maximum is in [0, 1] and so is the result sqrt(max),
\* for byte sequences of any lengths.
C1_Range ==
    pc = "done" =>
        /\ \A k \in 1..Len(kernel) :
              /\ FLeq(Zero, FMul(kernel[k].num, kernel[k].num))
              /\ FLeq(FMul(kernel[k].num, kernel[k].num),
                      FMul(kernel[k].denx, kernel[k].deny))
              /\ InUnit(kernel[k].v)
        /\ Len(kernel) = length
        /\ InUnit(max)
        /\ InUnit(result.squared)

C1_Witness ==
    /\ pc = "done"
    /\ FLess(Zero, max) /\ FLess(max, One)
    /\ \E k \in 1..Len(kernel) : FLess(kernel[k].num, Zero)

C3_NoDivisionByZero ==
    pc = "done" => \A k \in 1..Len(divisors) : divisors[k] # Zero

SameCall(t) ==
    /\ result = t.result
    /\ sumX = t.sumX /\ sumY = t.sumY
    /\ meanX = t.meanX /\ meanY = t.meanY
    /\ kernel = t.kernel

C5_Truncation ==
    pc = "done" =>
        /\ length = Min(Len(coefficients1), Len(coefficients2))
        /\ SameCall(GetCrossCorrelation(Prefix(coefficients1, length),
                                        Prefix(coefficients2, length)))
        /\ readX \subseteq 0..(length - 1)
        /\ readY \subseteq 0..(length - 1)

C5_Witness ==
    /\ pc = "done"
    /\ length = 2
    /\ Len(coefficients1) > length
    /\ coefficients1[Len(coefficients1)] # coefficients1[1]
    /\ coefficients1[Len(coefficients1)] # coefficients1[2]
    /\ result = Sqrt(One)

\* C6: when the common prefix is empty the offset loop runs zero times, the
\* maximum stays 0 and the result is 0.
C6_EmptyPrefix ==
    (pc = "done" /\ Min(Len(coefficients1), Len(coefficients2)) = 0) =>
        /\ kernel = <<>>
        /\ max = Zero
        /\ result = Sqrt(Zero)

C6_Witness ==
    /\ pc = "done"
    /\ Len(coefficients1) = 0
    /\ Len(coefficients2) > 0
    /\ result = Sqrt(Zero)

\* C7: GetHammingDistance(x, y) is the number of bit positions in which x and
\* y differ, a value in 0..64, and the software popcount (arithmetic modulo
\* 2^64) agrees with the hardware popcount on x XOR y.
C7_Hamming ==
    pc = "hdoneXY" =>
        /\ distance = DiffBits(hx, hy)
        /\ distance \in 0..WordBits
        /\ SoftwarePopCount(WXor(hx, hy)) = PopCountLL(WXor(hx, hy), 1)

C7_Witness ==
    /\ pc = "hdoneXY"
    /\ ~popcnt
    /\ hx = Repeat(255)
    /\ hy = Repeat(0)
    /\ distance = WordBits

TwoPass(k, n, d, rn, rx, ry) ==
    /\ Len(k.xi) = n
    /\ {k.xi[j] : j \in 1..n} = 0..(n - 1)
    /\ Len(k.yi) = n
    /\ \A j \in 1..n : /\ k.yi[j] \in 0..(n - 1)
                        /\ k.yi[j] = (k.xi[j] + d) % n
    /\ k.num = rn /\ k.denx = rx /\ k.deny = ry
    /\ k.v = IF FLess(rn, Zero) \/ rx = Zero \/ ry = Zero
              THEN Zero
              ELSE FDiv(FMul(rn, rn), FMul(rx, ry))

C9_TwoPass ==
    pc = "kdone" =>
        TwoPass(kernel[1], Len(fx), argOffset,
                RefNum(fx, fy, argOffset, 0), RefDenX(fx, 0),
                RefDenY(fy, argOffset, 0))

C9_Witness ==
    /\ pc = "kdone"
    /\ Len(fx) > 1
    /\ argOffset = Len(fx) - 1
    /\ FLess(Zero, kernel[1].v) /\ FLess(kernel[1].v, One)

\* C10: for inputs of equal length the result is symmetric in its arguments,
\* and the value of (x, y) at offset d is the value of (y, x) at offset
\* (n - d) mod n.
Mirrored(t) ==
    /\ result = t.result
    /\ t.fx = fy /\ t.fy = fx
    /\ \A d \in 0..(length - 1) :
          kernel[d + 1].v = t.kernel[((length - d) % length) + 1].v

C10_Symmetry ==
    (pc = "done" /\ Len(coefficients1) = Len(coefficients2)) =>
        Mirrored(GetCrossCorrelation(coefficients2, coefficients1))

C10_Witness ==
    /\ pc = "done"
    /\ Len(coefficients1) = Len(coefficients2)
    /\ coefficients1 # coefficients2
    /\ FLess(Zero, max) /\ FLess(max, One)
    /\ kernel[2].v # kernel[3].v

====
